---- MODULE Spec2Model ----
(***************************************************************************)
(* Model of meeting_manager_app.py: the DBManager record store (one table  *)
(* "meetings" with UNIQUE(title, date)), the date normalizers and the      *)
(* six-field search.                                                        *)
(*                                                                          *)
(* Text is modelled as a sequence of characters; a character is a one-     *)
(* element token.  The CJK characters of the source are written with ASCII *)
(* tokens: "nian" (U+5E74), "yue" (U+6708), "ri" (U+65E5), "xia" (U+4E0B), *)
(* "wu" (U+5348).                                                           *)
(***************************************************************************)
EXTENDS Integers, Sequences, FiniteSets

VARIABLES
    meetings,   \* the rows of table meetings: a set of records with an id
    seq,        \* sqlite_sequence.seq of the AUTOINCREMENT primary key
    ret,        \* the last DBManager call: its arguments and what it returned
    input,      \* the text or document handed to a pure function
    output,     \* what the function returned for it (Pending before the call)
    dialog,     \* the ManualEntryDialog on screen, if any, and its rec_id
    window      \* the MainWindow: its six search boxes and last_results

vars == <<meetings, seq, ret, input, output, dialog, window>>

(***************************** bounds **************************************)
\* at most MaxId rows are ever inserted (ids 1..MaxId)
MaxId == 2
\* at most MaxPad blanks are put before, inside and after a date input
MaxPad == 1

(***************************** characters **********************************)
Digits == {"0", "1", "2", "3", "4", "5", "6", "7", "8", "9"}

\* Python's None for an Optional[str]
None == <<"None">>
\* Python's None for an Optional[int] (ids start at 1)
NoId == 0

\* \d of the date patterns
IsDigit(c) == c \in Digits

\* what str.strip() removes and \s matches
IsSpace(c) == c \in {" ", "LF"}

\* the code point of a character: SQLite's BINARY collation compares the
\* UTF-8 bytes, which orders text as its code points do
Code(c) ==
    CASE c = " " -> 32
      [] c = "%" -> 37
      [] c = "-" -> 45
      [] c = "0" -> 48
      [] c = "1" -> 49
      [] c = "2" -> 50
      [] c = "3" -> 51
      [] c = "4" -> 52
      [] c = "5" -> 53
      [] c = "6" -> 54
      [] c = "7" -> 55
      [] c = "8" -> 56
      [] c = "9" -> 57
      [] c = "A" -> 65
      [] c = "B" -> 66
      [] c = "_" -> 95
      [] c = "a" -> 97
      [] c = "b" -> 98
      [] c = "c" -> 99
      [] c = "t" -> 116
      [] c = "x" -> 120
      [] c = "z" -> 122
      [] c = "xia" -> 19979
      [] c = "wu" -> 21320
      [] c = "nian" -> 24180
      [] c = "ri" -> 26085
      [] c = "yue" -> 26376

DigitVal(c) == Code(c) - Code("0")

DigitChar(n) == CHOOSE c \in Digits : DigitVal(c) = n

(***************************** str helpers *********************************)
RECURSIVE lstrip(_)
lstrip(s) ==
    IF s # <<>> /\ IsSpace(Head(s)) THEN lstrip(Tail(s)) ELSE s

RECURSIVE rstrip(_)
rstrip(s) ==
    IF s # <<>> /\ IsSpace(s[Len(s)]) THEN rstrip(SubSeq(s, 1, Len(s) - 1)) ELSE s

\* str.strip()
strip(s) == rstrip(lstrip(s))

\* s[i:] with a 0-based i
From(s, i) == SubSeq(s, i + 1, Len(s))

\* int(ds) of a string of digits
RECURSIVE int(_)
int(ds) ==
    IF ds = <<>> THEN 0
    ELSE 10 * int(SubSeq(ds, 1, Len(ds) - 1)) + DigitVal(ds[Len(ds)])

\* f"{n}" of an integer n >= 0
RECURSIVE str(_)
str(n) ==
    IF n < 10 THEN <<DigitChar(n)>> ELSE str(n \div 10) \o <<DigitChar(n % 10)>>

\* f"{n:0wd}": zero padded to at least w digits (pad2 is w = 2; strftime's %Y
\* is w = 4, %m and %d are w = 2)
RECURSIVE zfill(_, _)
zfill(ds, w) == IF Len(ds) >= w THEN ds ELSE zfill(<<"0">> \o ds, w)

pad2(n) == zfill(str(n), 2)

(***************************** date patterns *******************************)
AllDigits(s) == \A i \in 1..Len(s) : IsDigit(s[i])

AllSpace(s) == \A i \in 1..Len(s) : IsSpace(s[i])

NoMatch == [ok |-> FALSE, y |-> <<>>, m |-> <<>>, d |-> <<>>, end |-> 0]

\* One way for ^\s*(\d{4})<s1>(\d{lm})<s2>(\d{ld})<s3> to match s, with
\* \s*$ after it when full; lead is the length of the leading \s*.
TryMatch(s, s1, s2, s3, full, lm, ld) ==
    LET lead == Len(s) - Len(lstrip(s))
        py   == lead
        p1   == py + 4
        pm   == p1 + Len(s1)
        p2   == pm + lm
        pd   == p2 + Len(s2)
        p3   == pd + ld
        pe   == p3 + Len(s3)
    IN  IF /\ Len(s) >= pe
           /\ AllDigits(SubSeq(s, py + 1, p1))
           /\ SubSeq(s, p1 + 1, pm) = s1
           /\ AllDigits(SubSeq(s, pm + 1, p2))
           /\ SubSeq(s, p2 + 1, pd) = s2
           /\ AllDigits(SubSeq(s, pd + 1, p3))
           /\ SubSeq(s, p3 + 1, pe) = s3
           /\ (full => AllSpace(From(s, pe)))
        THEN [ok |-> TRUE, y |-> SubSeq(s, py + 1, p1), m |-> SubSeq(s, pm + 1, p2),
              d |-> SubSeq(s, pd + 1, p3), end |-> pe]
        ELSE NoMatch

\* re.match: \d{1,2} is greedy, so the two-digit readings are tried first,
\* the month before the day
ReMatch(s, s1, s2, s3, full) ==
    LET m22 == TryMatch(s, s1, s2, s3, full, 2, 2)
        m21 == TryMatch(s, s1, s2, s3, full, 2, 1)
        m12 == TryMatch(s, s1, s2, s3, full, 1, 2)
        m11 == TryMatch(s, s1, s2, s3, full, 1, 1)
    IN  IF m22.ok THEN m22
        ELSE IF m21.ok THEN m21
        ELSE IF m12.ok THEN m12
        ELSE m11

DATE_RE_CN_FULL(s) == ReMatch(s, <<"nian">>, <<"yue">>, <<"ri">>, TRUE)

DATE_RE_STD_FULL(s) == ReMatch(s, <<"-">>, <<"-">>, <<>>, TRUE)

DATE_RE_CN_PREFIX(s) == ReMatch(s, <<"nian">>, <<"yue">>, <<"ri">>, FALSE)

DATE_RE_STD_PREFIX(s) == ReMatch(s, <<"-">>, <<"-">>, <<>>, FALSE)

(***************************** normalize_datetime **************************)
\* the body shared by the two branches of normalize_datetime
DatePartWithSuffix(s, m) ==
    LET date_part == str(int(m.y)) \o <<"nian">> \o str(int(m.m)) \o <<"yue">>
                         \o str(int(m.d)) \o <<"ri">>
        suffix    == strip(From(s, m.end))
    IN  IF suffix # <<>> THEN date_part \o <<" ">> \o suffix ELSE date_part

normalize_datetime_drop_suffix(date_str) ==
    LET s == strip(date_str)
        cn == DATE_RE_CN_PREFIX(s)
        std == DATE_RE_STD_PREFIX(s)
    IN  IF cn.ok THEN DatePartWithSuffix(SubSeq(s, 1, cn.end), cn)
        ELSE IF std.ok THEN DatePartWithSuffix(SubSeq(s, 1, std.end), std)
        ELSE None

normalize_datetime(date_str) ==
    LET s == strip(date_str)
        cn == DATE_RE_CN_PREFIX(s)
        std == DATE_RE_STD_PREFIX(s)
    IN  IF cn.ok THEN DatePartWithSuffix(s, cn)
        ELSE IF std.ok THEN DatePartWithSuffix(s, std)
        ELSE None

(***************************** normalize_date_prefix **********************)
IsLeap(y) == (y % 4 = 0 /\ y % 100 # 0) \/ y % 400 = 0

DaysInMonth(y, m) ==
    IF m = 2 THEN (IF IsLeap(y) THEN 29 ELSE 28)
    ELSE IF m \in {4, 6, 9, 11} THEN 30
    ELSE 31

\* datetime(y, m, d) raises ValueError unless this holds
ValidDate(y, m, d) ==
    /\ 1 <= y /\ y <= 9999
    /\ 1 <= m /\ m <= 12
    /\ 1 <= d /\ d <= DaysInMonth(y, m)

\* datetime(y, m, d).strftime("%Y-%m-%d"), None on ValueError; the year is
\* written with four digits (the date keywords below use years from 1000 on)
StrfTime(m) ==
    IF ValidDate(int(m.y), int(m.m), int(m.d))
    THEN zfill(str(int(m.y)), 4) \o <<"-">> \o pad2(int(m.m)) \o <<"-">> \o pad2(int(m.d))
    ELSE None

\* normalize_date_prefix: a result only when the whole stripped text is a date
normalize_date_prefix(date_in) ==
    LET s == strip(date_in)
        cn == DATE_RE_CN_FULL(s)
        std == DATE_RE_STD_FULL(s)
    IN  IF cn.ok THEN StrfTime(cn)
        ELSE IF std.ok THEN StrfTime(std)
        ELSE None

(***************************** records *************************************)
\* the date texts typed or imported: two spellings of one day, the same day
\* with a time of day after it, and a later day of the same year
DateInputs ==
    { <<"2", "0", "2", "4", "nian", "3", "yue", "5", "ri">>,
      <<"2", "0", "2", "4", "-", "0", "3", "-", "0", "5">>,
      <<"2", "0", "2", "4", "nian", "3", "yue", "5", "ri", "xia", "wu">>,
      <<"2", "0", "2", "4", "nian", "1", "0", "yue", "1", "ri">> }

Titles == { <<"a">>, <<"A", "b">> }

\* the records handed to the store: parse_docx_to_records and collect_record
\* both set date to normalize_datetime's result and give up when it is None
BaseRecords ==
    { rec \in [title : Titles,
               date : {normalize_datetime(d) : d \in DateInputs},
               location : {<<"x">>},
               attendees : {<<"z">>},
               topic : {<<"t">>},
               content : {<<"c">>},
               raw_text : {<<"r">>}] : rec.date # None }

\* and one record that repeats the title and date of another with another
\* topic, content and raw text
Records ==
    BaseRecords \cup
    { [rec EXCEPT !.topic = <<>>, !.content = <<"c", "c">>, !.raw_text = <<"r", "r">>] :
        rec \in {b \in BaseRecords :
                    /\ b.title = <<"a">>
                    /\ b.date = <<"2", "0", "2", "4", "nian", "3", "yue", "5", "ri">>} }

Ids == 1..MaxId

(***************************** DBManager ***********************************)
\* a row of table meetings
Row(id, rec) ==
    [id |-> id, title |-> rec.title, date |-> rec.date, location |-> rec.location,
     attendees |-> rec.attendees, topic |-> rec.topic, content |-> rec.content,
     raw_text |-> rec.raw_text]

\* the columns of a row other than id
Fields(row) ==
    [title |-> row.title, date |-> row.date, location |-> row.location,
     attendees |-> row.attendees, topic |-> row.topic, content |-> row.content,
     raw_text |-> row.raw_text]

NoMsg == "None"

DuplicateInsertMsg == "duplicate record (same title + date) skipped"

DuplicateUpdateMsg == "the change duplicates an existing record (same title + date)"

UniqueViolation_WithTopic(rows, rec, self) ==
    \E r \in rows : r.id # self /\ r.title = rec.title /\ r.date = rec.date
                       /\ r.topic = rec.topic

\* UNIQUE(title, date): writing rec as row self would repeat another row's pair
UniqueViolation(rows, rec, self) ==
    \E r \in rows : r.id # self /\ r.title = rec.title /\ r.date = rec.date

insert_or_replace_meeting(rec) ==
    /\ seq < MaxId
    /\ meetings' = {r \in meetings : r.title # rec.title \/ r.date # rec.date}
                        \cup {Row(seq + 1, rec)}
    /\ seq' = seq + 1
    /\ ret' = [op |-> "insert_meeting", rec |-> rec, ok |-> TRUE, msg |-> NoMsg]

insert_meeting(rec) ==
    IF UniqueViolation(meetings, rec, NoId)
    THEN /\ ret' = [op |-> "insert_meeting", rec |-> rec, ok |-> FALSE,
                    msg |-> DuplicateInsertMsg]
         /\ UNCHANGED <<meetings, seq>>
    ELSE /\ seq < MaxId
         /\ meetings' = meetings \cup {Row(seq + 1, rec)}
         /\ seq' = seq + 1
         /\ ret' = [op |-> "insert_meeting", rec |-> rec, ok |-> TRUE, msg |-> NoMsg]

update_meeting_no_exclusion(rec_id, rec) ==
    IF \E r \in meetings : r.id = rec_id /\ UniqueViolation(meetings, rec, NoId)
    THEN /\ ret' = [op |-> "update_meeting", rec_id |-> rec_id, rec |-> rec,
                    ok |-> FALSE, msg |-> DuplicateUpdateMsg]
         /\ UNCHANGED <<meetings, seq>>
    ELSE /\ meetings' = {IF r.id = rec_id THEN Row(rec_id, rec) ELSE r : r \in meetings}
         /\ ret' = [op |-> "update_meeting", rec_id |-> rec_id, rec |-> rec,
                    ok |-> TRUE, msg |-> NoMsg]
         /\ UNCHANGED seq

update_meeting(rec_id, rec) ==
    IF \E r \in meetings : r.id = rec_id /\ UniqueViolation(meetings, rec, rec_id)
    THEN /\ ret' = [op |-> "update_meeting", rec_id |-> rec_id, rec |-> rec,
                    ok |-> FALSE, msg |-> DuplicateUpdateMsg]
         /\ UNCHANGED <<meetings, seq>>
    ELSE /\ meetings' = {IF r.id = rec_id THEN Row(rec_id, rec) ELSE r : r \in meetings}
         /\ ret' = [op |-> "update_meeting", rec_id |-> rec_id, rec |-> rec,
                    ok |-> TRUE, msg |-> NoMsg]
         /\ UNCHANGED seq

delete_meeting_strict(rec_id) ==
    /\ meetings' = {r \in meetings : r.id # rec_id}
    /\ ret' = [op |-> "delete_meeting", rec_id |-> rec_id,
               ok |-> (\E r \in meetings : r.id = rec_id),
               msg |-> IF \E r \in meetings : r.id = rec_id THEN NoMsg ELSE "not found"]
    /\ UNCHANGED seq

delete_meeting(rec_id) ==
    /\ meetings' = {r \in meetings : r.id # rec_id}
    /\ ret' = [op |-> "delete_meeting", rec_id |-> rec_id, ok |-> TRUE, msg |-> NoMsg]
    /\ UNCHANGED seq

SelectId_TitleOnly(rows, title, date) ==
    LET found == {r \in rows : r.title = title}
    IN  IF found = {} THEN NoId ELSE (CHOOSE r \in found : TRUE).id

\* SELECT id FROM meetings WHERE title=? AND date=?, fetchone()
SelectId(rows, title, date) ==
    LET found == {r \in rows : r.title = title /\ r.date = date}
    IN  IF found = {} THEN NoId ELSE (CHOOSE r \in found : TRUE).id

get_id_by_title_date(title, date) ==
    /\ ret' = [op |-> "get_id_by_title_date", title |-> title, date |-> date,
               rec_id |-> SelectId(meetings, title, date)]
    /\ UNCHANGED <<meetings, seq>>

(***************************** search **************************************)
\* ASCII case folding of SQLite's LIKE
Fold(c) == IF c = "A" THEN "a" ELSE IF c = "B" THEN "b" ELSE c

\* text LIKE pat in SQLite: % matches any run of characters, _ matches any
\* one character, ASCII letters match without regard to case
RECURSIVE Like(_, _)
Like(text, pat) ==
    IF pat = <<>> THEN text = <<>>
    ELSE IF Head(pat) = "%"
         THEN Like(text, Tail(pat)) \/ (text # <<>> /\ Like(Tail(text), pat))
    ELSE /\ text # <<>>
         /\ (Head(pat) = "_" \/ Fold(Head(pat)) = Fold(Head(text)))
         /\ Like(Tail(text), Tail(pat))

\* a < b in the BINARY collation
TextLess(a, b) ==
    \/ Len(a) < Len(b) /\ SubSeq(b, 1, Len(a)) = a
    \/ \E i \in 1..Len(a) :
          /\ i <= Len(b)
          /\ SubSeq(a, 1, i - 1) = SubSeq(b, 1, i - 1)
          /\ Code(a[i]) < Code(b[i])

\* r comes before q under ORDER BY date DESC, id DESC
Before(r, q) ==
    \/ TextLess(q.date, r.date)
    \/ r.date = q.date /\ r.id > q.id

RECURSIVE OrderBy(_)
OrderBy(rows) ==
    IF rows = {} THEN <<>>
    ELSE LET first == CHOOSE r \in rows : \A q \in rows \ {r} : Before(r, q)
         IN  <<first>> \o OrderBy(rows \ {first})

\* like_clause(field, kw), applied when kw.strip() is not empty
like_clause(text, kw) ==
    strip(kw) # <<>> => Like(text, <<"%">> \o strip(kw) \o <<"%">>)

date_clause_substring(text, date_kw) ==
    strip(date_kw) # <<>> =>
        LET prefix == normalize_date_prefix(strip(date_kw))
        IN  IF prefix # None /\ prefix # <<>>
            THEN Like(text, prefix \o <<"%">>)
            ELSE Like(text, <<"%">> \o strip(date_kw) \o <<"%">>)

\* the date clause, added when the keyword is not blank and
\* normalize_date_prefix accepts it
date_clause(text, date_kw) ==
    strip(date_kw) # <<>> =>
        LET prefix == normalize_date_prefix(strip(date_kw))
        IN  (prefix # None /\ prefix # <<>>) => Like(text, prefix \o <<"%">>)

\* the WHERE clause
Where(r, kw) ==
    /\ like_clause(r.title, kw.title_kw)
    /\ like_clause(r.location, kw.location_kw)
    /\ like_clause(r.attendees, kw.attendees_kw)
    /\ like_clause(r.topic, kw.topic_kw)
    /\ like_clause(r.content, kw.content_kw)
    /\ date_clause(r.date, kw.date_kw)

\* the texts typed into the date box: nothing, a complete date in each of
\* the two forms, a date without its day, a date with text after it
DateKeywords ==
    { <<>>,
      <<"2", "0", "2", "4", "nian", "3", "yue", "5", "ri">>,
      <<"2", "0", "2", "4", "-", "1", "0", "-", "1">>,
      <<"2", "0", "2", "4", "nian", "3", "yue">>,
      <<"2", "0", "2", "4", "nian", "3", "yue", "5", "ri", " ", "xia", "wu">> }

\* the keywords typed into the six search boxes: at most two boxes are
\* filled in
Queries ==
    { kw \in [title_kw : {<<>>, <<" ", "b">>, <<"_">>},
              date_kw : DateKeywords,
              location_kw : {<<>>, <<" ">>},
              attendees_kw : {<<>>, <<"t">>},
              topic_kw : {<<>>, <<"t">>},
              content_kw : {<<>>, <<"c", "c">>}] :
        Cardinality({f \in DOMAIN kw : kw[f] # <<>>}) <= 2 }

\* The WHERE clause reads no id, so it is evaluated once for each set of
\* keywords and each record the store can hold: the pairs it accepts.
Selected ==
    UNION { IF Where(p[2], p[1]) THEN {p} ELSE {} : p \in Queries \X Records }

\* the rows segmented_search_exact_six returns
SearchRows(rows, kw) == OrderBy({r \in rows : <<kw, Fields(r)>> \in Selected})

segmented_search_exact_six(kw) ==
    /\ ret' = [op |-> "segmented_search_exact_six", kw |-> kw,
               rows |-> SearchRows(meetings, kw)]
    /\ UNCHANGED <<meetings, seq>>

(***************************** date inputs *********************************)
\* n blanks
RECURSIVE Blanks(_)
Blanks(n) == IF n = 0 THEN <<>> ELSE <<" ">> \o Blanks(n - 1)

Pads == {Blanks(n) : n \in 0..MaxPad}

\* The texts handed to normalize_datetime: a year, a month and a day with
\* their separators, each well formed or not, blanks around them, and text
\* after the date.
DateStrings ==
    { lead \o y \o s1 \o m \o s2 \o d \o s3 \o gap \o suffix \o trail :
        lead \in Pads \cup {<<"x">>},
        y \in {<<"2", "0", "2", "4">>, <<"0", "0", "2", "4">>, <<"2", "0", "2">>},
        s1 \in {<<"nian">>, <<"-">>},
        m \in {<<"3">>, <<"0", "3">>, <<"1", "0">>, <<"1", "2", "3">>},
        s2 \in {<<"yue">>, <<"-">>},
        d \in {<<"5">>, <<"0", "5">>, <<"3", "1">>},
        s3 \in {<<"ri">>, <<>>},
        gap \in Pads,
        suffix \in {<<>>, <<"xia", "wu">>, <<"1", "0">>},
        trail \in Pads }

Pending == <<"Pending">>

\* no ManualEntryDialog is on screen
NoDialog == [open |-> FALSE, rec_id |-> NoId, init_rec_id |-> NoId]

\* the six search boxes with nothing typed into them
BlankQuery ==
    [title_kw |-> <<>>, date_kw |-> <<>>, location_kw |-> <<>>,
     attendees_kw |-> <<>>, topic_kw |-> <<>>, content_kw |-> <<>>]

\* the MainWindow after __init__ on an empty store
NoWindow == [q |-> BlankQuery, last_results |-> <<>>]

(***************************** the date normalizer as a machine ************)
InitDate ==
    /\ input \in DateStrings
    /\ output = Pending
    /\ meetings = {}
    /\ seq = 0
    /\ ret = [op |-> "none"]
    /\ dialog = NoDialog
    /\ window = NoWindow

\* date_norm = normalize_datetime(date_str)
CallNormalizeDatetime ==
    /\ output = Pending
    /\ output' = normalize_datetime(input)
    /\ UNCHANGED <<input, meetings, seq, ret, dialog, window>>

NextDate == CallNormalizeDatetime

SpecDate == InitDate /\ [][NextDate]_vars

(***************************** C6 *******************************************)
\* text without its leading and trailing blanks
Trim(s) ==
    LET keep == {i \in 1..Len(s) : s[i] # " "}
        lo   == CHOOSE i \in keep : \A j \in keep : i <= j
        hi   == CHOOSE i \in keep : \A j \in keep : i >= j
    IN  IF keep = {} THEN <<>> ELSE SubSeq(s, lo, hi)

\* digits without their leading zeros
RECURSIVE Unpad(_)
Unpad(ds) == IF Len(ds) > 1 /\ Head(ds) = "0" THEN Unpad(Tail(ds)) ELSE ds

\* the ways to read s as <4 digits> s1 <1-2 digits> s2 <1-2 digits> s3 <rest>
ReadingsWith(s, s1, s2, s3) ==
    { r \in [y : {SubSeq(s, 1, 4)},
             m : {SubSeq(s, 5 + Len(s1), 4 + Len(s1) + k) : k \in 1..2},
             d : {SubSeq(s, i, j) : i \in 1..Len(s), j \in 1..Len(s)},
             rest : {SubSeq(s, i, Len(s)) : i \in 1..(Len(s) + 1)}] :
        /\ Len(r.y) = 4 /\ Len(r.m) \in 1..2 /\ Len(r.d) \in 1..2
        /\ \A i \in 1..4 : r.y[i] \in Digits
        /\ \A i \in 1..Len(r.m) : r.m[i] \in Digits
        /\ \A i \in 1..Len(r.d) : r.d[i] \in Digits
        /\ s = r.y \o s1 \o r.m \o s2 \o r.d \o s3 \o r.rest }

\* the readings of s as "<year>nian<month>yue<day>ri..." or "<year>-<month>-<day>..."
Readings(s) ==
    ReadingsWith(s, <<"nian">>, <<"yue">>, <<"ri">>) \cup ReadingsWith(s, <<"-">>, <<"-">>, <<>>)

\* "<year>nian<month>yue<day>ri" of a reading, the numbers without leading zeros
Canon(r) == Unpad(r.y) \o <<"nian">> \o Unpad(r.m) \o <<"yue">> \o Unpad(r.d) \o <<"ri">>

\* C6 as stated: normalize_datetime returns a result exactly when the text
\* begins, at position 0, with a date in one of the two forms, and the result
\* is then the date in the nian/yue/ri form followed by nothing when no text
\* trails it and otherwise by one blank and the trailing text verbatim.
C6_AsStated ==
    output # Pending =>
        /\ (output # None) <=> (Readings(input) # {})
        /\ Readings(input) # {} =>
              \E r \in Readings(input) :
                  output = Canon(r) \o (IF r.rest = <<>> THEN <<>> ELSE <<" ">> \o r.rest)

\* C6 amended: normalize_datetime returns a result exactly when the text
\* without its leading and trailing blanks begins with a date in one of the
\* two forms; the result is then the date in the nian/yue/ri form, its numbers
\* without leading zeros and its day read as long as possible, followed by
\* nothing when only blanks trail it and otherwise by one blank and the
\* trailing text without the blanks around it.
C6_Normalizer ==
    output # Pending =>
        LET R == Readings(Trim(input))
        IN  /\ (output # None) <=> (R # {})
            /\ R # {} =>
                  LET r == CHOOSE q \in R : \A o \in R : Len(q.d) >= Len(o.d)
                  IN  output = Canon(r) \o
                        (IF Trim(r.rest) = <<>> THEN <<>> ELSE <<" ">> \o Trim(r.rest))

\* a text with a blank before the date and text after it has been normalized
C6_Witness ==
    /\ output # Pending
    /\ output # None
    /\ Head(input) = " "
    /\ output[Len(output)] = "wu"

(***************************** the store as a machine **********************)
Init ==
    /\ meetings = {}
    /\ seq = 0
    /\ ret = [op |-> "none"]
    /\ input = <<>>
    /\ output = Pending
    /\ dialog = NoDialog
    /\ window = NoWindow

Next ==
    \/ \E rec \in Records : insert_meeting(rec) /\ UNCHANGED <<input, output, dialog, window>>
    \/ \E rec_id \in Ids, rec \in Records :
          update_meeting(rec_id, rec) /\ UNCHANGED <<input, output, dialog, window>>
    \/ \E rec_id \in Ids : delete_meeting(rec_id) /\ UNCHANGED <<input, output, dialog, window>>
    \/ \E rec \in Records :
          get_id_by_title_date(rec.title, rec.date) /\ UNCHANGED <<input, output, dialog, window>>
    \/ \E kw \in Queries : segmented_search_exact_six(kw) /\ UNCHANGED <<input, output, dialog, window>>

Spec == Init /\ [][Next]_vars

(***************************** C1 .. C5: the store *************************)
IdsOf(rows) == {r.id : r \in rows}

SameKey(r, rec) == r.title = rec.title /\ r.date = rec.date

\* C1: no two rows of the store have the same (title, date) pair, whatever
\* inserts, updates and deletes, successful or failing, came before.
C1_UniqueTitleDate ==
    \A r \in meetings : \A q \in meetings : SameKey(r, q) => r = q

\* two rows are stored and the last insert or update was refused
C1_Witness ==
    /\ Cardinality(meetings) = 2
    /\ ret.op \in {"insert_meeting", "update_meeting"}
    /\ ~ret.ok

\* C2: an insert of a record whose (title, date) is already stored fails with
\* the duplicate message, creates no row and leaves the rows as they were; an
\* insert of a record whose (title, date) is not stored succeeds and adds
\* exactly one row, which holds the record.
C2_InsertDuplicate ==
    [][ret'.op = "insert_meeting" =>
          LET rec == ret'.rec
          IN  IF \E r \in meetings : SameKey(r, rec)
              THEN /\ ~ret'.ok
                   /\ ret'.msg = DuplicateInsertMsg
                   /\ meetings' = meetings
              ELSE /\ ret'.ok
                   /\ ret'.msg = NoMsg
                   /\ \E id \in Ids \ IdsOf(meetings) :
                         meetings' = meetings \cup {Row(id, rec)}]_vars

\* an insert was refused as a duplicate of a row whose other columns differ
\* from the record offered
C2_Witness ==
    /\ ret.op = "insert_meeting"
    /\ ~ret.ok
    /\ ret.msg = DuplicateInsertMsg
    /\ \E r \in meetings : SameKey(r, ret.rec) /\ Fields(r) # ret.rec

\* C3 as stated: update_meeting(id, rec) reports the duplicate and leaves the
\* store unchanged exactly when some row with a different id has rec's
\* (title, date); an update that keeps the row's own pair succeeds.
C3_AsStated ==
    [][ret'.op = "update_meeting" =>
          LET rec == ret'.rec
              id  == ret'.rec_id
          IN  /\ (~ret'.ok /\ ret'.msg = DuplicateUpdateMsg /\ meetings' = meetings)
                    <=> (\E r \in meetings : r.id # id /\ SameKey(r, rec))
              /\ (\E r \in meetings : r.id = id /\ SameKey(r, rec)) => ret'.ok]_vars

\* C3 amended: for an id that is in the store, update_meeting(id, rec)
\* reports the duplicate and leaves the store unchanged exactly when some row
\* with a different id has rec's (title, date), and an update that keeps the
\* row's own pair succeeds; for an id that is not in the store the update
\* succeeds, is never reported as a duplicate and leaves the store unchanged.
C3_UpdateDuplicate ==
    [][ret'.op = "update_meeting" =>
          LET rec == ret'.rec
              id  == ret'.rec_id
          IN  IF id \in IdsOf(meetings)
              THEN /\ (~ret'.ok /\ ret'.msg = DuplicateUpdateMsg /\ meetings' = meetings)
                         <=> (\E r \in meetings : r.id # id /\ SameKey(r, rec))
                   /\ (\E r \in meetings : r.id = id /\ SameKey(r, rec)) => ret'.ok
                   /\ ret'.ok \/ ret'.msg = DuplicateUpdateMsg
              ELSE /\ ret'.ok
                   /\ ret'.msg = NoMsg
                   /\ meetings' = meetings]_vars

\* an update of a stored row was refused as a duplicate of another row
C3_Witness ==
    /\ ret.op = "update_meeting"
    /\ ~ret.ok
    /\ ret.msg = DuplicateUpdateMsg
    /\ ret.rec_id \in IdsOf(meetings)
    /\ \E r \in meetings : r.id # ret.rec_id /\ SameKey(r, ret.rec)

\* C4: delete_meeting of an id that is not in the store returns success and
\* leaves the store unchanged; any delete returns success and leaves the id
\* out of the store, so a second delete of the same id changes nothing.
C4_DeleteIdempotent ==
    [][ret'.op = "delete_meeting" =>
          /\ ret'.ok
          /\ ret'.msg = NoMsg
          /\ ret'.rec_id \notin IdsOf(meetings')
          /\ ret'.rec_id \notin IdsOf(meetings) => meetings' = meetings]_vars

\* an id that was never created has been deleted from a store that holds rows
C4_Witness ==
    /\ ret.op = "delete_meeting"
    /\ ret.ok
    /\ ret.rec_id > seq
    /\ meetings # {}

\* C5: after a successful insert_meeting(rec), get_id_by_title_date(rec.title,
\* rec.date) returns the id of a row whose columns are those of rec, and a
\* lookup by a row's (title, date) keeps returning that row's id for as long
\* as the row is neither updated nor deleted.
C5_RoundTrip ==
    [][/\ (ret'.op = "insert_meeting" /\ ret'.ok) =>
             \E r \in meetings' :
                 /\ r.id = SelectId(meetings', ret'.rec.title, ret'.rec.date)
                 /\ Fields(r) = ret'.rec
       /\ \A r \in meetings \cap meetings' :
             SelectId(meetings', r.title, r.date) = r.id
       /\ ret'.op = "get_id_by_title_date" =>
             \A r \in meetings :
                 (r.title = ret'.title /\ r.date = ret'.date) => ret'.rec_id = r.id]_vars

\* the id of a stored record was looked up by its title and date while
\* another record with the same title was stored
C5_Witness ==
    /\ ret.op = "get_id_by_title_date"
    /\ ret.rec_id # NoId
    /\ \E r \in meetings : r.id # ret.rec_id /\ r.title = ret.title

(***************************** C7 .. C10: the search ***********************)
RowSet(rows) == {rows[i] : i \in 1..Len(rows)}

Blank(kw) == Trim(kw) = <<>>

\* kw is a complete date and nothing else
StrictDate(kw) == \E r \in Readings(Trim(kw)) : r.rest = <<>>

\* the year, month and day a date text begins with
DayOf(text) ==
    LET R == Readings(Trim(text))
        r == CHOOSE q \in R : \A o \in R : Len(q.d) >= Len(o.d)
    IN  <<int(r.y), int(r.m), int(r.d)>>

\* day a is later than day b
Later(a, b) ==
    \/ a[1] > b[1]
    \/ a[1] = b[1] /\ a[2] > b[2]
    \/ a[1] = b[1] /\ a[2] = b[2] /\ a[3] > b[3]

\* p occurs in s
Occurs(p, s) == \E i \in 0..(Len(s) - Len(p)) : SubSeq(s, i + 1, i + Len(p)) = p

OnlyDate(kw) ==
    /\ ~Blank(kw.date_kw)
    /\ \A f \in DOMAIN kw \ {"date_kw"} : Blank(kw[f])

\* C7 as stated: a search whose only keyword is a complete date returns all
\* stored records whose meeting date is that day and no record of another day.
C7_DateSearchAsStated ==
    (ret.op = "segmented_search_exact_six" /\ OnlyDate(ret.kw) /\ StrictDate(ret.kw.date_kw))
        => RowSet(ret.rows) = {r \in meetings : DayOf(r.date) = DayOf(ret.kw.date_kw)}

\* the date keywords that are not blank and not a complete date
IncompleteDates == {d \in DateKeywords : ~Blank(d) /\ ~StrictDate(d)}

\* C8: whatever the store and the other five keywords, a search with a date
\* keyword that is not blank and not a complete date returns the rows, in the
\* order, of the same search with the date keyword left blank.
C8_IncompleteDateDropped ==
    \A kw \in Queries :
        kw.date_kw \in IncompleteDates =>
            SearchRows(meetings, kw) = SearchRows(meetings, [kw EXCEPT !.date_kw = <<>>])

\* a search with an incomplete date and a topic keyword returned one of the
\* two stored rows
C8_Witness ==
    /\ ret.op = "segmented_search_exact_six"
    /\ ret.kw.date_kw \in IncompleteDates
    /\ ~Blank(ret.kw.topic_kw)
    /\ Len(ret.rows) = 1
    /\ Cardinality(meetings) = 2

\* C9 as stated: with the date keyword blank, the search returns exactly the
\* stored records in which every keyword that is not blank occurs as a
\* substring of its field (all of them when every keyword is blank).
C9_SubstringAsStated ==
    (ret.op = "segmented_search_exact_six" /\ Blank(ret.kw.date_kw)) =>
        RowSet(ret.rows) =
            {r \in meetings :
                /\ Blank(ret.kw.title_kw) \/ Occurs(Trim(ret.kw.title_kw), r.title)
                /\ Blank(ret.kw.location_kw) \/ Occurs(Trim(ret.kw.location_kw), r.location)
                /\ Blank(ret.kw.attendees_kw) \/ Occurs(Trim(ret.kw.attendees_kw), r.attendees)
                /\ Blank(ret.kw.topic_kw) \/ Occurs(Trim(ret.kw.topic_kw), r.topic)
                /\ Blank(ret.kw.content_kw) \/ Occurs(Trim(ret.kw.content_kw), r.content)}

\* C10 as stated: a result list has the later meeting day first, and rows of
\* equal date in descending order of id.
C10_ChronologicalAsStated ==
    ret.op = "segmented_search_exact_six" =>
        \A i \in 1..Len(ret.rows) : \A j \in 1..Len(ret.rows) :
            i < j =>
                /\ ~Later(DayOf(ret.rows[j].date), DayOf(ret.rows[i].date))
                /\ ret.rows[i].date = ret.rows[j].date => ret.rows[i].id > ret.rows[j].id

(***************************** split_docx_by_page **************************)
\* at most MaxContent plain lines follow the content marker of a document
MaxContent == 1

\* a paragraph of a document: para.text, and whether one of its runs holds
\* a <w:br w:type="page"/>
Para(text, brk) == [text |-> text, brk |-> brk]

\* the loop over doc.paragraphs, from paragraph i on
RECURSIVE SplitLoop(_, _, _, _)
SplitLoop(paras, i, groups, current_lines) ==
    IF i > Len(paras)
    THEN IF current_lines # <<>> THEN Append(groups, current_lines) ELSE groups
    ELSE LET text == strip(paras[i].text)
             lines == IF text # <<>> THEN Append(current_lines, text)
                      ELSE current_lines
         IN  IF paras[i].brk /\ lines # <<>>
             THEN SplitLoop(paras, i + 1, Append(groups, lines), <<>>)
             ELSE SplitLoop(paras, i + 1, groups, lines)

\* split_docx_by_page(path) for a document DocxDocument can open
split_docx_by_page(doc) == SplitLoop(doc.paragraphs, 1, <<>>, <<>>)

(***************************** parse_docx_to_records ***********************)
Colon == "fwcolon"

LabelDate == <<"hui", "yi", "shi", "jian">>

LabelLocation == <<"hui", "yi", "di", "dian">>

LabelAttendees == <<"can", "hui", "ren", "yuan">>

LabelTopic == <<"hui", "yi", "yi", "ti">>

LabelContent == <<"hui", "yi", "nei", "rong">>

EmptyDocumentMsg == "the document is empty"

MissingFieldMsg == "a required field is missing (time/location/attendees)"

BadDateMsg == "the meeting time has the wrong format"

UnreadableMsg == "cannot parse the Word file"

\* the record slot of a result that carries an error
NoRec == [none |-> TRUE]

\* s.startswith(p)
startswith(s, p) == Len(s) >= Len(p) /\ SubSeq(s, 1, Len(p)) = p

\* sep.join(lines)
RECURSIVE join(_, _)
join(sep, lines) ==
    IF lines = <<>> THEN <<>>
    ELSE IF Len(lines) = 1 THEN lines[1]
    ELSE lines[1] \o sep \o join(sep, Tail(lines))

\* the index of the first full-width colon of ln, 0 if there is none
FirstColon(ln) ==
    IF \E i \in 1..Len(ln) : ln[i] = Colon
    THEN CHOOSE i \in 1..Len(ln) : ln[i] = Colon /\ \A j \in 1..(i - 1) : ln[j] # Colon
    ELSE 0

\* the index of the last full-width colon of ln, 0 if there is none
LastColon(ln) ==
    IF \E i \in 1..Len(ln) : ln[i] = Colon
    THEN CHOOSE i \in 1..Len(ln) : ln[i] = Colon /\ \A j \in (i + 1)..Len(ln) : ln[j] # Colon
    ELSE 0

safe_extract_last_colon(ln) ==
    IF LastColon(ln) = 0 THEN <<>> ELSE strip(From(ln, LastColon(ln)))

\* parts = ln.split(colon, 1); parts[1].strip() if len(parts) > 1 else ""
safe_extract(ln) ==
    IF FirstColon(ln) = 0 THEN <<>> ELSE strip(From(ln, FirstColon(ln)))

\* the values before the loop over lines[1:]
ScanStart ==
    [date_str |-> <<>>, location |-> <<>>, attendees |-> <<>>, topic |-> <<>>,
     content_lines |-> <<>>, content_started |-> FALSE]

\* one turn of the loop over lines[1:]
ScanLine(st, ln) ==
    IF startswith(ln, LabelDate) THEN [st EXCEPT !.date_str = safe_extract(ln)]
    ELSE IF startswith(ln, LabelLocation) THEN [st EXCEPT !.location = safe_extract(ln)]
    ELSE IF startswith(ln, LabelAttendees) THEN [st EXCEPT !.attendees = safe_extract(ln)]
    ELSE IF startswith(ln, LabelTopic) THEN [st EXCEPT !.topic = safe_extract(ln)]
    ELSE IF startswith(ln, LabelContent) THEN [st EXCEPT !.content_started = TRUE]
    ELSE IF st.content_started
         THEN [st EXCEPT !.content_lines = Append(st.content_lines, ln)]
         ELSE st

\* the loop over lines[1:], from line i on
RECURSIVE Scan(_, _, _)
Scan(lines, i, st) ==
    IF i > Len(lines) THEN st ELSE Scan(lines, i + 1, ScanLine(st, lines[i]))

\* an entry (rec, err, raw_text) of the list parse_docx_to_records returns
Entry(rec, err, raw) == [rec |-> rec, err |-> err, raw |-> raw]

\* the date format is looked at before the required fields
ParseGroup_DateFirst(lines) ==
    LET raw_text == join(<<"LF">>, lines)
        st == Scan(lines, 2, ScanStart)
        date_norm == normalize_datetime(st.date_str)
    IN  IF lines = <<>> THEN Entry(NoRec, EmptyDocumentMsg, raw_text)
        ELSE IF date_norm = None THEN Entry(NoRec, BadDateMsg, raw_text)
        ELSE IF st.date_str = <<>> \/ st.location = <<>> \/ st.attendees = <<>>
        THEN Entry(NoRec, MissingFieldMsg, raw_text)
        ELSE Entry([title |-> lines[1], date |-> date_norm, location |-> st.location,
                    attendees |-> st.attendees, topic |-> st.topic,
                    content |-> strip(join(<<"LF">>, st.content_lines)),
                    raw_text |-> raw_text], NoMsg, None)

\* the body of the loop over the groups of parse_docx_to_records
ParseGroup(lines) ==
    LET raw_text == join(<<"LF">>, lines)
        st == Scan(lines, 2, ScanStart)
        date_norm == normalize_datetime(st.date_str)
    IN  IF lines = <<>> THEN Entry(NoRec, EmptyDocumentMsg, raw_text)
        ELSE IF st.date_str = <<>> \/ st.location = <<>> \/ st.attendees = <<>>
        THEN Entry(NoRec, MissingFieldMsg, raw_text)
        ELSE IF date_norm = None THEN Entry(NoRec, BadDateMsg, raw_text)
        ELSE Entry([title |-> lines[1], date |-> date_norm, location |-> st.location,
                    attendees |-> st.attendees, topic |-> st.topic,
                    content |-> strip(join(<<"LF">>, st.content_lines)),
                    raw_text |-> raw_text], NoMsg, None)

\* parse_docx_to_records(path): one entry per group, or one entry for a
\* document that cannot be opened
parse_docx_to_records(doc) ==
    IF ~doc.readable THEN << Entry(NoRec, UnreadableMsg, None) >>
    ELSE LET groups == split_docx_by_page(doc)
         IN  [i \in 1..Len(groups) |-> ParseGroup(groups[i])]

(***************************** documents ***********************************)
\* the lines a meeting page is typed from: each slot is left out or filled
DocDay == <<"2", "0", "2", "4", "nian", "3", "yue", "5", "ri">>

TitleLines == { <<"a">>, LabelTopic \o <<Colon, "y">> }

DateLines ==
    { LabelDate \o <<Colon>> \o DocDay,
      LabelDate \o <<Colon, "x">> }

LocationLines ==
    { LabelLocation \o <<Colon, "x">>,
      LabelLocation \o <<Colon, " ", "x">>,
      LabelLocation \o <<Colon, "x", Colon, "y">> }

AttendeesLines == { LabelAttendees \o <<Colon, "z">> }

TopicLines == { LabelTopic \o <<Colon, "t">>, LabelTopic \o <<":", "t">> }

OtherLines == { <<"n">> }

MarkerLines == { LabelContent \o <<Colon>> }

AfterLines == { LabelLocation \o <<Colon, "w">>, LabelContent \o <<"c">> }

\* a slot: nothing, or one of the lines
Slot(lines) == { <<>> } \cup { <<ln>> : ln \in lines }

RECURSIVE Repeat(_, _)
Repeat(ln, n) == IF n = 0 THEN <<>> ELSE <<ln>> \o Repeat(ln, n - 1)

\* the pages: title, the labelled lines, a stray line, the content marker,
\* content lines and a line after them that begins with a label
Pages ==
    { t \o d \o l \o a \o tp \o o \o m \o c \o af :
        t \in { <<ln>> : ln \in TitleLines }, d \in Slot(DateLines),
        l \in Slot(LocationLines), a \in Slot(AttendeesLines),
        tp \in Slot(TopicLines), o \in Slot(OtherLines), m \in Slot(MarkerLines),
        c \in { Repeat(<<"c">>, n) : n \in 0..MaxContent }, af \in Slot(AfterLines) }

\* what may stand before a page: nothing, a blank paragraph, a blank
\* paragraph holding a page break
Leads == { <<>>, << Para(<<" ">>, FALSE) >>, << Para(<<>>, TRUE) >> }

\* a document: what stands before the page, then the page with a page break
\* in its paragraph b (none when b = 0)
Document(lead, pg, b) ==
    [readable |-> TRUE,
     paragraphs |-> lead \o [i \in 1..Len(pg) |-> Para(pg[i], i = b)]]

\* a file that is no Word document
Unreadable == [readable |-> FALSE, paragraphs |-> <<>>]

(***************************** the parser as a machine *********************)
InitParse ==
    /\ \/ \E lead \in Leads, pg \in Pages \cup {<<>>} :
             \E b \in 0..Len(pg) : input = Document(lead, pg, b)
       \/ input = Unreadable
    /\ output = Pending
    /\ meetings = {}
    /\ seq = 0
    /\ ret = [op |-> "none"]
    /\ dialog = NoDialog
    /\ window = NoWindow

\* meetings = split_docx_by_page(path)
CallSplitDocxByPage ==
    /\ ret.op = "none"
    /\ input.readable
    /\ output' = split_docx_by_page(input)
    /\ ret' = [op |-> "split_docx_by_page"]
    /\ UNCHANGED <<input, meetings, seq, dialog, window>>

\* records = parse_docx_to_records(Path(f))
CallParseDocxToRecords ==
    /\ ret.op = "none"
    /\ output' = parse_docx_to_records(input)
    /\ ret' = [op |-> "parse_docx_to_records"]
    /\ UNCHANGED <<input, meetings, seq, dialog, window>>

NextParse == CallSplitDocxByPage \/ CallParseDocxToRecords

SpecParse == InitParse /\ [][NextParse]_vars

(***************************** C11 .. C13, C16: the parser *****************)
\* the groups of the document a finished parse_docx_to_records call was given
ParsedGroups == split_docx_by_page(input)

Parsed == ret.op = "parse_docx_to_records" /\ input.readable

\* the values the scan of a group extracts
Extracted(g) == Scan(g, 2, ScanStart)

MissingRequired(g) ==
    \/ Extracted(g).date_str = <<>>
    \/ Extracted(g).location = <<>>
    \/ Extracted(g).attendees = <<>>

\* C11: every line-group is validated in the order empty group, missing
\* required field (date, location or attendees empty after extraction),
\* date rejected by the normalizer; the entry reports exactly the first check
\* that fails, a group that passes all three yields a record, and every
\* failure entry carries the group's lines joined by newlines as raw text.
C11_ValidationOrder ==
    Parsed =>
        /\ Len(output) = Len(ParsedGroups)
        /\ \A i \in 1..Len(ParsedGroups) :
             LET g == ParsedGroups[i]
                 e == output[i]
             IN  /\ e.err = IF g = <<>> THEN EmptyDocumentMsg
                             ELSE IF MissingRequired(g) THEN MissingFieldMsg
                             ELSE IF normalize_datetime(Extracted(g).date_str) = None
                                  THEN BadDateMsg
                             ELSE NoMsg
                 /\ (e.err = NoMsg) <=> (e.rec # NoRec)
                 /\ e.err # NoMsg => e.raw = join(<<"LF">>, g)

\* a group whose location is missing and whose date is not a date: the
\* missing field is what the entry reports
C11_Witness ==
    /\ Parsed
    /\ \E i \in 1..Len(ParsedGroups) :
          /\ Extracted(ParsedGroups[i]).location = <<>>
          /\ Extracted(ParsedGroups[i]).date_str = <<"x">>
          /\ output[i].err = MissingFieldMsg
          /\ output[i].raw = join(<<"LF">>, ParsedGroups[i])

\* the index of the content marker line of a group, 0 if it has none
MarkerIndex(g) ==
    IF \E k \in 2..Len(g) : startswith(g[k], LabelContent)
    THEN CHOOSE k \in 2..Len(g) :
            /\ startswith(g[k], LabelContent)
            /\ \A j \in 2..(k - 1) : ~startswith(g[j], LabelContent)
    ELSE 0

\* C12: once the content marker line has been seen, every later line of the
\* group, lines that begin with a label included, is appended verbatim to
\* the content and changes none of date, location, attendees and topic; the
\* content is those lines joined by newlines.
C12_ContentAsStated ==
    Parsed =>
        \A i \in 1..Len(ParsedGroups) :
            LET g == ParsedGroups[i]
                k == MarkerIndex(g)
                before == Extracted(SubSeq(g, 1, k))
                e == output[i]
            IN  (k > 0 /\ e.rec # NoRec) =>
                    /\ e.rec.content = join(<<"LF">>, SubSeq(g, k + 1, Len(g)))
                    /\ e.rec.date = normalize_datetime(before.date_str)
                    /\ e.rec.location = before.location
                    /\ e.rec.attendees = before.attendees
                    /\ e.rec.topic = before.topic

Labels == {LabelDate, LabelLocation, LabelAttendees, LabelTopic, LabelContent}

\* the lines of a group that stand before its content marker (all of them
\* when it has none), the title left out
FieldLines(g) ==
    IF MarkerIndex(g) = 0 THEN 2..Len(g) ELSE 2..(MarkerIndex(g) - 1)

\* no line after the content marker begins with a label
PlainAfterMarker(g) ==
    MarkerIndex(g) = 0 \/
        \A j \in (MarkerIndex(g) + 1)..Len(g) : \A lb \in Labels : ~startswith(g[j], lb)

\* the text after the first full-width colon of a line, empty without a colon
TextAfterColon(ln) == IF FirstColon(ln) = 0 THEN <<>> ELSE From(ln, FirstColon(ln))

\* the text after the colon of the last line before the marker that begins
\* with the label, empty when no line does
Labelled(g, lb) ==
    LET at == {j \in FieldLines(g) : startswith(g[j], lb)}
    IN  IF at = {} THEN <<>>
        ELSE TextAfterColon(g[CHOOSE j \in at : \A h \in at : h <= j])

\* C13 as stated: a field is the text after the first full-width colon of
\* its label line
C13_AsStated ==
    Parsed =>
        \A i \in 1..Len(ParsedGroups) :
            LET g == ParsedGroups[i]
                e == output[i]
            IN  (PlainAfterMarker(g) /\ e.rec # NoRec) =>
                    /\ e.rec.title = g[1]
                    /\ e.rec.date = normalize_datetime(Labelled(g, LabelDate))
                    /\ e.rec.location = Labelled(g, LabelLocation)
                    /\ e.rec.attendees = Labelled(g, LabelAttendees)
                    /\ e.rec.topic = Labelled(g, LabelTopic)

\* C13: the title of a record is the first line of its group, also when that
\* line begins with a label (it is then not read as a field); among the
\* other lines before the content marker a line that begins with a label
\* sets that field to the text after the line's first full-width colon with
\* the whitespace around it removed (empty when the line has no full-width
\* colon), and lines that begin with no label change no field.
C13_FieldExtraction ==
    Parsed =>
        \A i \in 1..Len(ParsedGroups) :
            LET g == ParsedGroups[i]
                e == output[i]
            IN  (PlainAfterMarker(g) /\ e.rec # NoRec) =>
                    /\ e.rec.title = g[1]
                    /\ e.rec.date = normalize_datetime(strip(Labelled(g, LabelDate)))
                    /\ e.rec.location = strip(Labelled(g, LabelLocation))
                    /\ e.rec.attendees = strip(Labelled(g, LabelAttendees))
                    /\ e.rec.topic = strip(Labelled(g, LabelTopic))

\* a record whose title begins with the topic label and whose topic is
\* empty, from a group with a blank after the colon of its location line
\* and a line without a label
C13_Witness ==
    /\ Parsed
    /\ \E i \in 1..Len(ParsedGroups) :
          LET g == ParsedGroups[i]
          IN  /\ PlainAfterMarker(g)
              /\ output[i].rec # NoRec
              /\ startswith(output[i].rec.title, LabelTopic)
              /\ output[i].rec.topic = <<>>
              /\ output[i].rec.location = <<"x">>
              /\ \E j \in FieldLines(g) : g[j] = LabelLocation \o <<Colon, " ", "x">>
              /\ \E j \in FieldLines(g) : g[j] = <<"n">>

\* the stripped texts of the paragraphs that have text, in document order
RECURSIVE Texts(_)
Texts(paras) ==
    IF paras = <<>> THEN <<>>
    ELSE (IF strip(Head(paras).text) = <<>> THEN <<>> ELSE <<strip(Head(paras).text)>>)
            \o Texts(Tail(paras))

\* C16: a document without a manual page break splits into exactly one
\* line-group, which holds the text of all its non-empty paragraphs in
\* order; this includes the document without any non-empty paragraph.
C16_NoBreakOneGroup ==
    (/\ ret.op = "split_docx_by_page"
     /\ \A i \in 1..Len(input.paragraphs) : ~input.paragraphs[i].brk) =>
        /\ Len(output) = 1
        /\ output[1] = Texts(input.paragraphs)

(***************************** ManualEntryDialog ***************************)
\* the texts typed into the boxes of the dialog: a date in either form, no
\* date or no title, with the location or the attendees left empty
DialogInputs ==
    { f \in [title : { <<"a">>, <<" ">> },
             date : { <<"2", "0", "2", "4", "nian", "3", "yue", "5", "ri">>,
                      <<"0", "0", "2", "4", "-", "3", "-", "5">>,
                      <<"x">>, <<>> },
             location : { <<"x">>, <<>> },
             attendees : { <<"z">>, <<>> },
             topic : { <<"t">> },
             content : { <<"c">> }] :
        /\ f.location # <<>> \/ f.attendees # <<>>
        /\ f.title = <<" ">> => (f.date = DocDay /\ f.location # <<>> /\ f.attendees # <<>>) }

\* set_record: the boxes show the columns of the row
set_record(row) ==
    [title |-> row.title, date |-> row.date, location |-> row.location,
     attendees |-> row.attendees, topic |-> row.topic, content |-> row.content]

\* collect_record once the boxes are read and stripped and the date is
\* normalised: the record, NoRec after a warning
Collected(title, date_in, location, attendees, topic, content, date_norm) ==
    IF title = <<>> \/ date_in = <<>> THEN NoRec
    ELSE IF date_norm = None THEN NoRec
    ELSE [title |-> title, date |-> date_norm, location |-> location,
          attendees |-> attendees, topic |-> topic, content |-> content,
          raw_text |-> title \o <<"LF">>
                       \o LabelDate \o <<Colon>> \o date_norm \o <<"LF">>
                       \o LabelLocation \o <<Colon>> \o location \o <<"LF">>
                       \o LabelAttendees \o <<Colon>> \o attendees \o <<"LF">>
                       \o LabelTopic \o <<Colon>> \o topic \o <<"LF">>
                       \o LabelContent \o <<Colon, "LF">> \o content]

\* collect_record with the texts f in the boxes
collect_record(f) ==
    Collected(strip(f.title), strip(f.date), strip(f.location), strip(f.attendees),
              strip(f.topic), strip(f.content), normalize_datetime(strip(f.date)))

\* the rows refresh_results puts into last_results
refresh_results(rows) ==
    [window EXCEPT !.last_results = OrderBy({r \in rows : Where(r, window.q)})]

\* a dialog that stays in add mode after its first successful save
Saved_StayInAddMode(rec) ==
    /\ dialog.open
    /\ IF rec = NoRec
       THEN /\ ret' = [op |-> "collect_record", ok |-> FALSE]
            /\ UNCHANGED <<meetings, seq, dialog, window>>
       ELSE /\ IF dialog.rec_id = NoId
               THEN insert_meeting(rec)
               ELSE update_meeting(dialog.rec_id, rec)
            /\ UNCHANGED dialog
            /\ window' = IF ret'.ok THEN refresh_results(meetings') ELSE window

\* on_save_clicked after collect_record has returned rec
Saved(rec) ==
    /\ dialog.open
    /\ IF rec = NoRec
       THEN /\ ret' = [op |-> "collect_record", ok |-> FALSE]
            /\ UNCHANGED <<meetings, seq, dialog, window>>
       ELSE /\ IF dialog.rec_id = NoId
               THEN /\ insert_meeting(rec)
                    /\ dialog' = IF ret'.ok /\ SelectId(meetings', rec.title, rec.date) # NoId
                                 THEN [dialog EXCEPT
                                          !.rec_id = SelectId(meetings', rec.title, rec.date)]
                                 ELSE dialog
               ELSE /\ update_meeting(dialog.rec_id, rec)
                    /\ UNCHANGED dialog
            /\ window' = IF ret'.ok THEN refresh_results(meetings') ELSE window

\* on_save_clicked with the texts f in the boxes
on_save_clicked(f) == Saved(collect_record(f))

(***************************** MainWindow **********************************)
\* at most MaxFiles files are picked for one import
MaxFiles == 2

\* the keywords typed into the search boxes of the window
WindowQueries == { BlankQuery, [BlankQuery EXCEPT !.location_kw = <<"x">>] }

\* typing into the search boxes
TypeKeywords(kw) ==
    /\ ~dialog.open
    /\ window.q # kw
    /\ window' = [window EXCEPT !.q = kw]
    /\ ret' = [op |-> "none"]
    /\ UNCHANGED <<meetings, seq, dialog>>

on_search_clicked ==
    /\ ~dialog.open
    /\ window' = refresh_results(meetings)
    /\ ret' = [op |-> "on_search_clicked"]
    /\ UNCHANGED <<meetings, seq, dialog>>

\* on_add_clicked up to dlg.exec_(): the dialog opens without a rec_id
on_add_clicked ==
    /\ ~dialog.open
    /\ dialog' = [open |-> TRUE, rec_id |-> NoId, init_rec_id |-> NoId]
    /\ ret' = [op |-> "on_add_clicked"]
    /\ UNCHANGED <<meetings, seq, window>>

\* edit_record up to dlg.exec_(): the dialog opens on a row of last_results
edit_record(rec) ==
    /\ ~dialog.open
    /\ dialog' = [open |-> TRUE, rec_id |-> rec.id, init_rec_id |-> rec.id]
    /\ ret' = [op |-> "edit_record"]
    /\ UNCHANGED <<meetings, seq, window>>

\* the dialog is closed: dlg.exec_() returns to on_add_clicked or
\* edit_record, which refreshes the table
exec_return ==
    /\ dialog.open
    /\ dialog' = NoDialog
    /\ window' = refresh_results(meetings)
    /\ ret' = [op |-> "exec_"]
    /\ UNCHANGED <<meetings, seq>>

\* delete_record on a row of last_results, the question answered with Yes
delete_record(rec) ==
    /\ ~dialog.open
    /\ delete_meeting(rec.id)
    /\ window' = refresh_results(meetings')
    /\ UNCHANGED dialog

\* the files picked for an import: a meeting with a bad date and, after a
\* page break, a meeting; a file that is no Word document; a document
\* without text
ImportPages ==
    << <<"b">>, LabelDate \o <<Colon, "x">>, LabelLocation \o <<Colon, "x">>,
       LabelAttendees \o <<Colon, "z">>,
       <<"a">>, LabelDate \o <<Colon>> \o DocDay, LabelLocation \o <<Colon, "x">>,
       LabelAttendees \o <<Colon, "z">> >>

Files ==
    { [name |-> "two.docx", doc |-> Document(<<>>, ImportPages, 4)],
      [name |-> "bad.docx", doc |-> Unreadable],
      [name |-> "blank.docx", doc |-> Document(<<>>, <<>>, 0)] }

\* parse_docx_to_records reads only the file, so it is evaluated once for
\* each file that can be picked: the pairs of a file name and its entries
ParsedFiles == UNION { {<<f.name, parse_docx_to_records(f.doc)>>} : f \in Files }

\* records = parse_docx_to_records(Path(f))
RecordsRead(file) == (CHOOSE p \in ParsedFiles : p[1] = file.name)[2]

FileLists == UNION { [1..n -> Files] : n \in 1..MaxFiles }

\* db.insert_meeting(rec) inside the import loop: the store it leaves and
\* what it returns
Inserted(db, rec) ==
    IF UniqueViolation(db.rows, rec, NoId)
    THEN [rows |-> db.rows, seq |-> db.seq, ok |-> FALSE, msg |-> DuplicateInsertMsg]
    ELSE [rows |-> db.rows \cup {Row(db.seq + 1, rec)}, seq |-> db.seq + 1,
          ok |-> TRUE, msg |-> NoMsg]

\* one line of the error list: file name, reason, raw text
ErrorLine(name, err, raw) ==
    [name |-> name, err |-> err, raw |-> IF raw = None THEN <<>> ELSE raw]

\* the tallies before the first file
NoTally(rows, n) ==
    [rows |-> rows, seq |-> n, ok_count |-> 0, dup_count |-> 0, errors |-> <<>>]

\* an import that gives up a file at its first failed block
RECURSIVE ImportRecords_StopAtError(_, _, _, _)
ImportRecords_StopAtError(name, records, i, acc) ==
    IF i > Len(records) THEN acc
    ELSE IF records[i].err # NoMsg
    THEN [acc EXCEPT !.errors = Append(@, ErrorLine(name, records[i].err, records[i].raw))]
    ELSE LET r == Inserted(acc, records[i].rec)
             next == [acc EXCEPT !.rows = r.rows, !.seq = r.seq]
         IN  IF r.ok THEN ImportRecords_StopAtError(name, records, i + 1,
                              [next EXCEPT !.ok_count = @ + 1])
             ELSE ImportRecords_StopAtError(name, records, i + 1,
                              [next EXCEPT !.dup_count = @ + 1])

\* the loop over the entries of one file, from entry i on
RECURSIVE ImportRecords(_, _, _, _)
ImportRecords(name, records, i, acc) ==
    IF i > Len(records) THEN acc
    ELSE IF records[i].err # NoMsg
    THEN ImportRecords(name, records, i + 1,
             [acc EXCEPT !.errors = Append(@, ErrorLine(name, records[i].err, records[i].raw))])
    ELSE LET r == Inserted(acc, records[i].rec)
             next == [acc EXCEPT !.rows = r.rows, !.seq = r.seq]
         IN  IF r.ok THEN ImportRecords(name, records, i + 1,
                              [next EXCEPT !.ok_count = @ + 1])
             ELSE IF r.msg = DuplicateInsertMsg
                  THEN ImportRecords(name, records, i + 1,
                              [next EXCEPT !.dup_count = @ + 1])
             ELSE ImportRecords(name, records, i + 1,
                      [next EXCEPT !.errors =
                          Append(@, ErrorLine(name, r.msg, records[i].rec.raw_text))])

\* the loop over the files, from file i on
RECURSIVE ImportFiles(_, _, _)
ImportFiles(files, i, acc) ==
    IF i > Len(files) THEN acc
    ELSE ImportFiles(files, i + 1,
             ImportRecords(files[i].name, RecordsRead(files[i]), 1, acc))

\* on_import_clicked once the loops are done: the store and the tallies
\* they leave, then refresh_results
Imported(files, acc) ==
    /\ ~dialog.open
    /\ acc.seq <= MaxId
    /\ meetings' = acc.rows
    /\ seq' = acc.seq
    /\ ret' = [op |-> "on_import_clicked", files |-> files,
               ok_count |-> acc.ok_count, dup_count |-> acc.dup_count,
               errors |-> acc.errors]
    /\ window' = refresh_results(acc.rows)
    /\ UNCHANGED dialog

\* on_import_clicked with the files picked in the file dialog
on_import_clicked(files) ==
    Imported(files, ImportFiles(files, 1, NoTally(meetings, seq)))

(***************************** the window as a machine **********************)
InitGui ==
    /\ meetings = {}
    /\ seq = 0
    /\ ret = [op |-> "none"]
    /\ input = <<>>
    /\ output = Pending
    /\ dialog = NoDialog
    /\ window = NoWindow

\* the row the dialog was opened on or has inserted, as set_record shows it
DialogRow == {set_record(r) : r \in {x \in meetings : x.id = dialog.rec_id}}

NextGui ==
    \/ \E kw \in WindowQueries : TypeKeywords(kw) /\ UNCHANGED <<input, output>>
    \/ on_search_clicked /\ UNCHANGED <<input, output>>
    \/ on_add_clicked /\ UNCHANGED <<input, output>>
    \/ \E i \in 1..Len(window.last_results) :
          edit_record(window.last_results[i]) /\ UNCHANGED <<input, output>>
    \/ \E f \in DialogInputs \cup DialogRow :
          on_save_clicked(f) /\ UNCHANGED <<input, output>>
    \/ exec_return /\ UNCHANGED <<input, output>>
    \/ \E i \in 1..Len(window.last_results) :
          delete_record(window.last_results[i]) /\ UNCHANGED <<input, output>>
    \/ \E files \in FileLists : on_import_clicked(files) /\ UNCHANGED <<input, output>>

SpecGui == InitGui /\ [][NextGui]_vars

(***************************** C14, C15, C17, C18: the window ***************)
\* C14: manual entry validates as the extractor does; a save with an empty
\* location or an empty attendees value is rejected and leaves the store
\* unchanged, so every record of the store, however it was created, has a
\* non-empty title, date, location and attendees.
C14_RequiredFieldsAsStated ==
    \A r \in meetings :
        r.title # <<>> /\ r.date # <<>> /\ r.location # <<>> /\ r.attendees # <<>>

\* the blocks of a document: the runs of paragraphs that a page break or the
\* end of the document closes and that hold some text; open tells whether
\* the run being read holds text already
RECURSIVE Blocks(_, _)
Blocks(paras, open) ==
    IF paras = <<>> THEN (IF open THEN 1 ELSE 0)
    ELSE LET has == open \/ strip(Head(paras).text) # <<>>
         IN  IF Head(paras).brk
             THEN (IF has THEN 1 ELSE 0) + Blocks(Tail(paras), FALSE)
             ELSE Blocks(Tail(paras), has)

\* the blocks of the files of an import, an unreadable file counting as one
RECURSIVE TotalBlocks(_)
TotalBlocks(files) ==
    IF files = <<>> THEN 0
    ELSE (IF Head(files).doc.readable THEN Blocks(Head(files).doc.paragraphs, FALSE)
          ELSE 1) + TotalBlocks(Tail(files))

\* the records the blocks of the files of an import yield
RecordsOf(files) ==
    UNION { { e.rec : e \in { en \in RowSet(RecordsRead(files[i])) :
                                 en.err = NoMsg } } : i \in 1..Len(files) }

\* the number of blocks of the files of an import that yield no record
RECURSIVE Failures(_)
Failures(files) ==
    IF files = <<>> THEN 0
    ELSE Len(SelectSeq(RecordsRead(Head(files)), LAMBDA e : e.err # NoMsg))
            + Failures(Tail(files))

\* C15: an import attempts every block of every file once, whatever failed
\* before it: inserted + duplicate-skipped + failure-log entries is the
\* number of blocks (an unreadable document counts as one failure, a block
\* is a run of paragraphs with text that a page break or the end of the
\* document closes), the store grows by exactly the inserted count, every
\* block that yields a record has its (title, date) in the store afterwards,
\* and a duplicate is counted as skipped and never put in the failure log.
C15_ImportTallies ==
    [][ret'.op = "on_import_clicked" =>
          /\ ret'.ok_count + ret'.dup_count + Len(ret'.errors) = TotalBlocks(ret'.files)
          /\ Len(ret'.errors) = Failures(ret'.files)
          /\ meetings \subseteq meetings'
          /\ Cardinality(meetings') = Cardinality(meetings) + ret'.ok_count
          /\ \A rec \in RecordsOf(ret'.files) : \E r \in meetings' : SameKey(r, rec)
          /\ \A i \in 1..Len(ret'.errors) : ret'.errors[i].err # DuplicateInsertMsg
    ]_vars

\* an import of four blocks that logged a failed block, then inserted a
\* record, logged another failed block and skipped a duplicate
C15_Witness ==
    /\ ret.op = "on_import_clicked"
    /\ ret.ok_count = 1
    /\ ret.dup_count = 1
    /\ Len(ret.errors) = 2
    /\ \A i \in 1..Len(ret.errors) : ret.errors[i].err = BadDateMsg
    /\ TotalBlocks(ret.files) = 4

\* C17: a dialog opened without a record id inserts at most one row however
\* often it is saved: the save that inserts leaves the dialog holding the new
\* row's id, and every later save, successful or rejected as a duplicate,
\* updates that id and inserts nothing.
C17_OneInsertPerDialog ==
    [][(dialog.open /\ dialog.init_rec_id = NoId /\ dialog'.open) =>
          /\ dialog.rec_id # NoId =>
                /\ IdsOf(meetings') = IdsOf(meetings)
                /\ dialog'.rec_id = dialog.rec_id
                /\ ret'.op # "insert_meeting"
          /\ dialog.rec_id = NoId =>
                \/ meetings' = meetings /\ dialog'.rec_id = NoId
                \/ \E r \in meetings' :
                      /\ r.id \notin IdsOf(meetings)
                      /\ meetings' = meetings \cup {r}
                      /\ dialog'.rec_id = r.id
    ]_vars

\* a dialog opened to add, after its insert, whose later save was rejected
\* as a duplicate of another row
C17_Witness ==
    /\ dialog.open
    /\ dialog.init_rec_id = NoId
    /\ dialog.rec_id # NoId
    /\ ret.op = "update_meeting"
    /\ ~ret.ok
    /\ Cardinality(meetings) = 2

\* C18: every stored date is a fixpoint of normalize_datetime, so a stored
\* record opened in the edit dialog and saved without a change passes the
\* date validation and keeps its (title, date).
C18_StoredDateFixpoint ==
    \A r \in meetings :
        /\ normalize_datetime(r.date) = r.date
        /\ collect_record(set_record(r)) # NoRec
        /\ SameKey(r, collect_record(set_record(r)))

====
